---- MODULE Spec2Model ----
(***************************************************************************)
(* Model of the YouTube live-chat bot (index.js): startup, the command     *)
(* table, the self-rescheduling poller with its per-message pipeline, and  *)
(* the timed announcements.  Texts are sequences of one-character strings  *)
(* so that toLowerCase, includes and key lookup are computed, not assumed. *)
(***************************************************************************)
EXTENDS Integers, Sequences, FiniteSets, Bags, TLC

VARIABLES
    pc,             \* position of the entry point: "auth", "lookup", "running", "exited"
    exitCode,       \* process exit code, -1 while the process lives
    liveChatId,     \* liveChatId handed to listenAndRespond, NoChat before
    cmdDefs,        \* botYml.commands, the ordered command definitions
    loadIdx,        \* number of definitions the forEach of the table build has visited
    commands,       \* own keys of the commands object: set of [key, response]
    webhook,        \* config.discordWebhook: [section, enable, url]
    participants,   \* in-memory Set of display names
    file,           \* content of participants.json
    script,         \* provider side: the chat items of this run, in posting order
    posted,         \* provider side: how many of them have been posted so far
    polls,          \* number of liveChatMessages.list calls issued
    poll,           \* poller position: "off", "list", "await", "timer"
    step,           \* the call an "await" poll is suspended on
    cur,            \* stream position of the item being processed
    res,            \* res.data of the list call being processed
    nextPageToken,  \* the poll cursor
    firstRun,       \* the first-run flag
    delay,          \* delay of the pending setTimeout(pollChat, ...)
    active,         \* number of pollChat invocations that have not returned
    timeouts,       \* number of pending setTimeout(pollChat, ...) callbacks
    err,            \* message of the error the last poll caught, NoErr if none
    log,            \* effects of the poller in order: logger line, hook posts, chat sends
    timedLog,       \* chat sends of the interval timers: a bag, their order is not kept
    bres,           \* res.data.items of the liveBroadcasts.list call of getLiveChatId
    call,           \* arguments of the function a function-level specification applies
    ret             \* what that function returned: NoRet, then Returned(value)

vars == <<pc, exitCode, liveChatId, cmdDefs, loadIdx, commands, webhook,
          participants, file, script, posted, polls, poll, step, cur, res,
          nextPageToken, firstRun, delay, active, timeouts, err, log, timedLog,
          bres, call, ret>>

\* ---------------------------------------------------------------- bounds
MaxPolls == 3       \* list calls issued during a run
MaxTimed == 2       \* firings of interval timers during a run
MaxDefs == 3        \* command definitions in a generated bot.yml

\* ---------------------------------------------------------------- texts
\* String.prototype.toLowerCase on one character
LowerChar(c) ==
    CASE c = "H" -> "h"
      [] c = "X" -> "x"
      [] c = "P" -> "p"
      [] c = "Q" -> "q"
      [] OTHER -> c

\* String.prototype.toLowerCase
ToLowerCase(s) == [i \in 1..Len(s) |-> LowerChar(s[i])]

\* String.prototype.includes: w occurs in s as a contiguous substring
Includes(s, w) ==
    \E i \in 0..(Len(s) - Len(w)) : SubSeq(s, i + 1, i + Len(w)) = w

\* ---------------------------------------------------------------- configuration
NoChat == "none"
Null == -1          \* the null cursor; a provider token is a stream position >= 0
NoErr == <<>>       \* no error caught
NoCall == "none"    \* no function-level call
NoRet == [done |-> FALSE]                       \* nothing returned yet
Returned(v) == [done |-> TRUE, value |-> v]     \* the call has returned v
NoRes == [first |-> 0, last |-> 0, nextPageToken |-> Null, pollingIntervalMillis |-> 0]

\* bot.yml of the checked runs: commands (trigger, response, aliases)
BotCommands ==
    << [trigger |-> <<"!", "h">>, response |-> <<"h", "i", " ", "{", "u", "s", "e", "r", "}">>,
        aliases |-> << <<"!", "H", "P">> >>],
       [trigger |-> <<"!", "X">>, response |-> <<"{", "u", "p", "t", "i", "m", "e", "}">>,
        aliases |-> << >>] >>

\* config.badWords
BadWords == { <<"x">> }

\* config.timedMessages: the texts; the second holds a placeholder
TimedMessages == << <<"s", "u", "b">>, <<"{", "u", "s", "e", "r", "}">> >>

\* bot.yml without a discordWebhook section
NoHook == [section |-> FALSE, enable |-> FALSE, url |-> ""]

\* discordWebhook as bot.yml may give it: on, switched off, without a url, missing
Webhooks ==
    { [section |-> TRUE, enable |-> TRUE, url |-> "u"],
      [section |-> TRUE, enable |-> FALSE, url |-> "u"],
      [section |-> TRUE, enable |-> TRUE, url |-> ""],
      NoHook }

\* ---------------------------------------------------------------- command table
\* the all-lowercase property names every object inherits from Object.prototype;
\* commands = {} has them too
ProtoKeys ==
    { <<"c", "o", "n", "s", "t", "r", "u", "c", "t", "o", "r">>,
      <<"_", "_", "p", "r", "o", "t", "o", "_", "_">> }

\* commands[key] = {response: ...}: an assignment replaces the key's entry
SetKey(tbl, key, response) ==
    { e \in tbl : e.key # key } \cup { [key |-> key, response |-> response] }

\* Object.keys(commands)
OwnKeys(tbl) == { e.key : e \in tbl }

RECURSIVE LoadAliases(_, _, _)
\* cmd.aliases.forEach(alias => commands[alias.toLowerCase()] = ...), from alias i on
LoadAliases(tbl, cmd, i) ==
    IF i > Len(cmd.aliases) THEN tbl
    ELSE LoadAliases(SetKey(tbl, ToLowerCase(cmd.aliases[i]), cmd.response), cmd, i + 1)

\* a table build in which a key, once set, is kept
LoadCommandMut(tbl, cmd) ==
    IF cmd.trigger # <<>> /\ cmd.response # <<>>
    THEN LET new == LoadAliases(SetKey({}, ToLowerCase(cmd.trigger), cmd.response), cmd, 1)
         IN  tbl \cup { e \in new : e.key \notin OwnKeys(tbl) }
    ELSE tbl

\* body of botYml.commands.forEach: a definition without trigger or response is skipped
LoadCommand(tbl, cmd) ==
    IF cmd.trigger # <<>> /\ cmd.response # <<>>
    THEN LoadAliases(SetKey(tbl, ToLowerCase(cmd.trigger), cmd.response), cmd, 1)
    ELSE tbl

RECURSIVE LoadCommands(_, _, _)
\* the whole forEach over the first n definitions
LoadCommands(tbl, defs, n) ==
    IF n = 0 THEN tbl ELSE LoadCommand(LoadCommands(tbl, defs, n - 1), defs[n])

\* commands[key]: "own" entry, else the inherited property, else undefined
Lookup(tbl, key) ==
    IF key \in OwnKeys(tbl) THEN [kind |-> "own", response |-> (CHOOSE e \in tbl : e.key = key).response]
    ELSE IF key \in ProtoKeys THEN [kind |-> "proto", response |-> <<>>]
    ELSE [kind |-> "undefined", response |-> <<>>]

\* ---------------------------------------------------------------- environment
\* answers of liveBroadcasts.list: broadcasts with status.lifeCycleStatus
\* ("" when the broadcast carries no status) and snippet.liveChatId
BroadcastLists ==
    { << >>,
      << [status |-> "complete", liveChatId |-> "c2"] >>,
      << [status |-> "liveStarting", liveChatId |-> "c2"] >>,
      << [status |-> "", liveChatId |-> "c2"], [status |-> "ready", liveChatId |-> "c3"] >>,
      << [status |-> "live", liveChatId |-> "c1"] >>,
      << [status |-> "complete", liveChatId |-> "c2"], [status |-> "live", liveChatId |-> "c1"] >>,
      << [status |-> "live", liveChatId |-> "c1"], [status |-> "live", liveChatId |-> "c3"] >> }

\* chat items: authorDetails.channelId, authorDetails.displayName,
\* snippet.displayMessage
Item(id, name, text) == [id |-> id, name |-> name, text |-> text]

\* the chats of the checked runs.  Author 1 posts a command in capitals, then
\* under a new display name a text that holds a banned word and is a command key;
\* author 2 shares author 1's display name and posts an alias;
\* a trigger with trailing text; a key of Object.prototype; an author the
\* startup file knows
Scripts ==
    { << Item(1, <<"A">>, <<"!", "H">>), Item(1, <<"B">>, <<"!", "X">>) >>,
      << Item(1, <<"A">>, <<"!", "h", " ", "m">>), Item(2, <<"A">>, <<"!", "h", "p">>) >>,
      << Item(2, <<"C">>, <<"c", "o", "n", "s", "t", "r", "u", "c", "t", "o", "r">>),
         Item(3, <<"D">>, <<"h", "i">>) >> }

\* participants.json as found at startup
StartupFile == { <<"D">> }

\* err.message of a failed network call
ErrMsgs ==
    { <<"n", "o", " ", "q", "u", "o", "t", "a">>,
      <<"r", "e", "s", "e", "t">> }

\* err.message of the TypeError of calling .replace on undefined
TypeErrorMsg == <<"r", "e", "p", "l", "a", "c", "e">>

\* pollingIntervalMillis of a list answer; 0 stands for a missing field
Suggested == { 0, 1000, 8000 }

\* ---------------------------------------------------------------- startup
Init ==
    /\ webhook \in Webhooks
    /\ cmdDefs = BotCommands
    /\ IF webhook.section
       THEN /\ pc = "auth"
            /\ exitCode = -1
            /\ loadIdx = Len(BotCommands)
            /\ commands = LoadCommands({}, BotCommands, Len(BotCommands))
            /\ participants = StartupFile
       ELSE \* the validation of bot.yml exits before the table and the store are built
            /\ pc = "exited"
            /\ exitCode = 1
            /\ loadIdx = 0
            /\ commands = {}
            /\ participants = {}
    /\ liveChatId = NoChat
    /\ file = StartupFile
    /\ script \in Scripts
    /\ posted = 0
    /\ polls = 0
    /\ poll = "off"
    /\ step = "none"
    /\ cur = 0
    /\ res = NoRes
    /\ nextPageToken = Null
    /\ firstRun = TRUE
    /\ delay = 0
    /\ active = 0
    /\ timeouts = 0
    /\ err = NoErr
    /\ log = << >>
    /\ timedLog = EmptyBag
    /\ bres = << >>
    /\ call = NoCall
    /\ ret = NoRet

\* process.exit(1)
Exit ==
    /\ pc' = "exited"
    /\ exitCode' = 1
    /\ UNCHANGED <<liveChatId, polls, poll, active, timeouts>>

\* main: await authorize(); a throw is caught by main and exits; otherwise
\* getLiveChatId issues liveBroadcasts.list, which will answer with bres
Authorize ==
    /\ pc = "auth"
    /\ \/ /\ pc' = "lookup"
          /\ bres' \in BroadcastLists
          /\ UNCHANGED <<exitCode, liveChatId, polls, poll, active, timeouts>>
       \/ /\ Exit
          /\ UNCHANGED bres
    /\ UNCHANGED <<cmdDefs, loadIdx, commands, webhook, participants, file, script, posted,
                   step, cur, res, nextPageToken, firstRun, delay, err, log, timedLog,
                   call, ret>>

\* a lookup that takes every broadcast that is not over for a live one
IsLiveMut(b) == b.status # "complete"

\* b.status?.lifeCycleStatus === "live"
IsLive(b) == b.status = "live"

\* res.data.items.find(IsLive): index of the first live broadcast, 0 if none
FindLive(items) ==
    IF \E i \in 1..Len(items) : IsLive(items[i])
    THEN CHOOSE i \in 1..Len(items) :
            IsLive(items[i]) /\ \A j \in 1..(i - 1) : ~IsLive(items[j])
    ELSE 0

\* listenAndRespond up to its first await: the interval timers are set and
\* pollChat() issues the first list call
ListenAndRespond(chatId) ==
    /\ pc' = "running"
    /\ liveChatId' = chatId
    /\ poll' = "list"
    /\ polls' = 1
    /\ active' = active + 1
    /\ UNCHANGED <<exitCode, timeouts>>

\* getLiveChatId after the list answer, and main's call of listenAndRespond
GetLiveChatId ==
    /\ pc = "lookup"
    /\ IF Len(bres) = 0 \/ FindLive(bres) = 0
       THEN Exit /\ UNCHANGED bres
       ELSE ListenAndRespond(bres[FindLive(bres)].liveChatId) /\ bres' = << >>
    /\ UNCHANGED <<cmdDefs, loadIdx, commands, webhook, participants, file, script, posted,
                   step, cur, res, nextPageToken, firstRun, delay, err, log, timedLog,
                   call, ret>>

\* liveBroadcasts.list rejects: main's catch exits
GetLiveChatIdFail ==
    /\ pc = "lookup"
    /\ Exit
    /\ bres' = << >>
    /\ UNCHANGED <<cmdDefs, loadIdx, commands, webhook, participants, file, script, posted,
                   step, cur, res, nextPageToken, firstRun, delay, err, log, timedLog,
                   call, ret>>

\* ---------------------------------------------------------------- poller
\* variables no step of pollChat changes
Fixed == <<pc, exitCode, liveChatId, cmdDefs, loadIdx, commands, webhook, script,
           timedLog, bres, call, ret>>

\* entries of log
Entry(kind, idx, ok) == [kind |-> kind, idx |-> idx, ok |-> ok]

\* a sendToDiscord that posts without looking at the url
HookOnMut == webhook.section /\ webhook.enable

\* sendToDiscord posts only with a webhook that is configured, enabled and has a url
HookOn == webhook.section /\ webhook.enable /\ webhook.url # ""

\* badWords.some(w => message.toLowerCase().includes(w))
SomeBanned(badWords, message) == \E w \in badWords : Includes(ToLowerCase(message), w)

\* the word filter of the pipeline, with config.badWords
Moderated(text) == SomeBanned(BadWords, text)

\* a backoff that does not look at the error
BackoffMut(msg) == 10000

\* err.message.includes("quota") ? 60000 : 10000
Backoff(msg) == IF Includes(msg, <<"q", "u", "o", "t", "a">>) THEN 60000 ELSE 10000

\* an interval that is never shorter than the default
IntervalMut(r) == IF r.pollingIntervalMillis < 5000 THEN 5000 ELSE r.pollingIntervalMillis

\* res.data.pollingIntervalMillis || 5000
Interval(r) == IF r.pollingIntervalMillis = 0 THEN 5000 ELSE r.pollingIntervalMillis

\* pageToken: nextPageToken || "", the position the provider lists from
PageFrom(token) == IF token = Null THEN 0 ELSE token

\* a catch block that logs and lets the poller end
CatchMut(msg, lg) ==
    /\ poll' = "off"
    /\ delay' = 0
    /\ active' = active - 1
    /\ timeouts' = timeouts
    /\ err' = msg
    /\ step' = "none"
    /\ cur' = 0
    /\ log' = Append(lg, Entry("error", cur, FALSE))
    /\ UNCHANGED <<firstRun, nextPageToken>>

\* a catch block that also clears the first-run flag
CatchFlagMut(msg, lg) ==
    /\ poll' = "timer"
    /\ delay' = Backoff(msg)
    /\ active' = active - 1
    /\ timeouts' = timeouts + 1
    /\ err' = msg
    /\ step' = "none"
    /\ cur' = 0
    /\ log' = Append(lg, Entry("error", cur, FALSE))
    /\ firstRun' = FALSE
    /\ UNCHANGED nextPageToken

\* the catch block of pollChat: logger.error, choose the backoff,
\* setTimeout(pollChat, backoff)
Catch(msg, lg) ==
    /\ poll' = "timer"
    /\ delay' = Backoff(msg)
    /\ active' = active - 1
    /\ timeouts' = timeouts + 1
    /\ err' = msg
    /\ step' = "none"
    /\ cur' = 0
    /\ log' = Append(lg, Entry("error", cur, FALSE))
    /\ UNCHANGED <<firstRun, nextPageToken>>

\* an end of the try block that leaves the cursor where it was
FinishMut(r, lg) ==
    /\ firstRun' = FALSE
    /\ nextPageToken' = nextPageToken
    /\ delay' = Interval(r)
    /\ active' = active - 1
    /\ timeouts' = timeouts + 1
    /\ poll' = "timer"
    /\ err' = NoErr
    /\ step' = "none"
    /\ cur' = 0
    /\ log' = lg

\* the end of the try block: flag, cursor, setTimeout(pollChat, interval)
Finish(r, lg) ==
    /\ firstRun' = FALSE
    /\ nextPageToken' = r.nextPageToken
    /\ delay' = Interval(r)
    /\ active' = active - 1
    /\ timeouts' = timeouts + 1
    /\ poll' = "timer"
    /\ err' = NoErr
    /\ step' = "none"
    /\ cur' = 0
    /\ log' = lg

\* a loop that walks the batch from its newest item to its oldest
EnterMut(i, lg) ==
    /\ poll' = "await"
    /\ step' = "relay"
    /\ cur' = res'.first + res'.last - i
    /\ log' = Append(lg, Entry("recv", res'.first + res'.last - i, TRUE))
    /\ UNCHANGED <<firstRun, nextPageToken, delay, active, timeouts, err>>

\* the loop head for item i: logger.info, then sendToDiscord(user, avatar, message)
Enter(i, lg) ==
    /\ poll' = "await"
    /\ step' = "relay"
    /\ cur' = i
    /\ log' = Append(lg, Entry("recv", i, TRUE))
    /\ UNCHANGED <<firstRun, nextPageToken, delay, active, timeouts, err>>

\* the next iteration of the for loop, or the end of the try block
NextItem(lg) ==
    IF cur < res.last THEN Enter(cur + 1, lg) ELSE Finish(res, lg)

\* suspend on a sendMessage / sendToDiscord call of the current item
Await(s, lg) ==
    /\ poll' = "await"
    /\ step' = s
    /\ log' = lg
    /\ UNCHANGED <<cur, firstRun, nextPageToken, delay, active, timeouts, err>>

\* word filter, then command handler, of the current item
Dispatch(lg) ==
    LET message == script[cur].text
        cmdObj == Lookup(commands, ToLowerCase(message))
    IN  IF Moderated(message) THEN Await("warn", lg)
        ELSE IF cmdObj.kind = "own" THEN Await("reply", lg)
        ELSE IF cmdObj.kind = "proto" THEN Catch(TypeErrorMsg, lg)
        ELSE NextItem(lg)

\* a welcome check whose saveParticipants appends the new name to the file
WelcomeCheckAppendMut(lg) ==
    LET user == script[cur].name
    IN  IF user \notin participants
        THEN /\ participants' = participants \cup {user}
             /\ file' \in {file \cup {user}, file}
             /\ Await("welcome", lg)
        ELSE /\ UNCHANGED <<participants, file>>
             /\ Dispatch(lg)

\* a welcome check whose saveParticipants lets the write error through
WelcomeCheckMut(lg) ==
    LET user == script[cur].name
    IN  IF user \notin participants
        THEN /\ participants' = participants \cup {user}
             /\ \/ file' = participants' /\ Await("welcome", lg)
                \/ file' = file /\ \E msg \in ErrMsgs : Catch(msg, lg)
        ELSE /\ UNCHANGED <<participants, file>>
             /\ Dispatch(lg)

\* welcome check of the current item: add, saveParticipants (a failed write is
\* swallowed), then the welcome send
WelcomeCheck(lg) ==
    LET user == script[cur].name
    IN  IF user \notin participants
        THEN /\ participants' = participants \cup {user}
             /\ file' \in {participants', file}
             /\ Await("welcome", lg)
        ELSE /\ UNCHANGED <<participants, file>>
             /\ Dispatch(lg)

\* a poll timer that stays pending after it has fired, as one set by setInterval
PollChatMut ==
    /\ pc = "running" /\ poll = "timer" /\ timeouts > 0 /\ polls < MaxPolls
    /\ poll' = "list"
    /\ polls' = polls + 1
    /\ active' = active + 1
    /\ timeouts' = timeouts
    /\ UNCHANGED <<posted, res, step, cur, firstRun, nextPageToken, delay, err, log,
                   participants, file>>
    /\ UNCHANGED Fixed

\* setTimeout(pollChat, ...) fires: the list call is issued
PollChat ==
    /\ pc = "running" /\ poll = "timer" /\ timeouts > 0 /\ polls < MaxPolls
    /\ poll' = "list"
    /\ polls' = polls + 1
    /\ active' = active + 1
    /\ timeouts' = timeouts - 1
    /\ UNCHANGED <<posted, res, step, cur, firstRun, nextPageToken, delay, err, log,
                   participants, file>>
    /\ UNCHANGED Fixed

\* a loop that is not guarded by the first-run flag
ProcessMut(r) == r.first <= r.last

\* if (!firstRun) for (const item of res.data.items): is there an item to process
Process(r) == ~firstRun /\ r.first <= r.last

\* liveChatMessages.list answers with the items posted after the cursor
ListOk ==
    /\ pc = "running" /\ poll = "list"
    /\ \E n \in posted..Len(script), iv \in Suggested :
          /\ posted' = n
          /\ res' = [first |-> PageFrom(nextPageToken) + 1, last |-> n,
                     nextPageToken |-> n, pollingIntervalMillis |-> iv]
          /\ IF Process(res')
             THEN Enter(res'.first, log)
             ELSE Finish(res', log)
    /\ UNCHANGED <<polls, participants, file>>
    /\ UNCHANGED Fixed

\* liveChatMessages.list rejects
ListFail ==
    /\ pc = "running" /\ poll = "list"
    /\ \E msg \in ErrMsgs : Catch(msg, log)
    /\ UNCHANGED <<posted, res, polls, participants, file>>
    /\ UNCHANGED Fixed

\* await sendToDiscord(user, avatar, message) returns
RelayOk ==
    /\ poll = "await" /\ step = "relay"
    /\ WelcomeCheck(IF HookOn THEN Append(log, Entry("relay", cur, TRUE)) ELSE log)
    /\ UNCHANGED <<posted, res, polls>>
    /\ UNCHANGED Fixed

\* the fetch of sendToDiscord rejects
RelayFail ==
    /\ poll = "await" /\ step = "relay" /\ HookOn
    /\ \E msg \in ErrMsgs : Catch(msg, Append(log, Entry("relay", cur, FALSE)))
    /\ UNCHANGED <<posted, res, polls, participants, file>>
    /\ UNCHANGED Fixed

\* a welcome that ends the handling of the message
WelcomeOkMut ==
    /\ poll = "await" /\ step = "welcome"
    /\ NextItem(Append(log, Entry("welcome", cur, TRUE)))
    /\ UNCHANGED <<posted, res, polls, participants, file>>
    /\ UNCHANGED Fixed

\* await sendMessage(welcome) returns
WelcomeOk ==
    /\ poll = "await" /\ step = "welcome"
    /\ Dispatch(Append(log, Entry("welcome", cur, TRUE)))
    /\ UNCHANGED <<posted, res, polls, participants, file>>
    /\ UNCHANGED Fixed

WelcomeFail ==
    /\ poll = "await" /\ step = "welcome"
    /\ \E msg \in ErrMsgs : Catch(msg, Append(log, Entry("welcome", cur, FALSE)))
    /\ UNCHANGED <<posted, res, polls, participants, file>>
    /\ UNCHANGED Fixed

\* await sendMessage(warning) returns; sendToDiscord("Bot", null, notice) is called
WarnOk ==
    /\ poll = "await" /\ step = "warn"
    /\ Await("notice", Append(log, Entry("warn", cur, TRUE)))
    /\ UNCHANGED <<posted, res, polls, participants, file>>
    /\ UNCHANGED Fixed

WarnFail ==
    /\ poll = "await" /\ step = "warn"
    /\ \E msg \in ErrMsgs : Catch(msg, Append(log, Entry("warn", cur, FALSE)))
    /\ UNCHANGED <<posted, res, polls, participants, file>>
    /\ UNCHANGED Fixed

\* await sendToDiscord("Bot", null, notice) returns; continue
NoticeOk ==
    /\ poll = "await" /\ step = "notice"
    /\ NextItem(IF HookOn THEN Append(log, Entry("notice", cur, TRUE)) ELSE log)
    /\ UNCHANGED <<posted, res, polls, participants, file>>
    /\ UNCHANGED Fixed

NoticeFail ==
    /\ poll = "await" /\ step = "notice" /\ HookOn
    /\ \E msg \in ErrMsgs : Catch(msg, Append(log, Entry("notice", cur, FALSE)))
    /\ UNCHANGED <<posted, res, polls, participants, file>>
    /\ UNCHANGED Fixed

\* await sendMessage(reply) returns
ReplyOk ==
    /\ poll = "await" /\ step = "reply"
    /\ NextItem(Append(log, Entry("reply", cur, TRUE)))
    /\ UNCHANGED <<posted, res, polls, participants, file>>
    /\ UNCHANGED Fixed

ReplyFail ==
    /\ poll = "await" /\ step = "reply"
    /\ \E msg \in ErrMsgs : Catch(msg, Append(log, Entry("reply", cur, FALSE)))
    /\ UNCHANGED <<posted, res, polls, participants, file>>
    /\ UNCHANGED Fixed

\* ---------------------------------------------------------------- timed messages
\* a timer callback that waits for the poller to be idle
TimerFireMut(i) ==
    /\ pc = "running" /\ BagCardinality(timedLog) < MaxTimed /\ poll = "timer"
    /\ \E ok \in BOOLEAN :
          timedLog' = timedLog (+) SetToBag({[timer |-> i, text |-> TimedMessages[i], ok |-> ok]})
    /\ UNCHANGED <<pc, exitCode, liveChatId, cmdDefs, loadIdx, commands, webhook,
                   participants, file, script, posted, polls, poll, step, cur, res,
                   nextPageToken, firstRun, delay, active, timeouts, err, log, bres,
                   call, ret>>

\* a timer that is cleared when its send fails
TimerFireStopMut(i) ==
    /\ pc = "running" /\ BagCardinality(timedLog) < MaxTimed
    /\ \A e \in BagToSet(timedLog) : e.timer = i => e.ok
    /\ \E ok \in BOOLEAN :
          timedLog' = timedLog (+) SetToBag({[timer |-> i, text |-> TimedMessages[i], ok |-> ok]})
    /\ UNCHANGED <<pc, exitCode, liveChatId, cmdDefs, loadIdx, commands, webhook,
                   participants, file, script, posted, polls, poll, step, cur, res,
                   nextPageToken, firstRun, delay, active, timeouts, err, log, bres,
                   call, ret>>

\* the callback of setInterval for timed message i:
\* sendMessage(youtube, liveChatId, tm.message).catch(console.error)
TimerFire(i) ==
    /\ pc = "running" /\ BagCardinality(timedLog) < MaxTimed
    /\ \E ok \in BOOLEAN :
          timedLog' = timedLog (+) SetToBag({[timer |-> i, text |-> TimedMessages[i], ok |-> ok]})
    /\ UNCHANGED <<pc, exitCode, liveChatId, cmdDefs, loadIdx, commands, webhook,
                   participants, file, script, posted, polls, poll, step, cur, res,
                   nextPageToken, firstRun, delay, active, timeouts, err, log, bres,
                   call, ret>>

Next ==
    \/ Authorize
    \/ GetLiveChatId
    \/ GetLiveChatIdFail
    \/ PollChat
    \/ ListOk
    \/ ListFail
    \/ RelayOk
    \/ RelayFail
    \/ WelcomeOk
    \/ WelcomeFail
    \/ WarnOk
    \/ WarnFail
    \/ NoticeOk
    \/ NoticeFail
    \/ ReplyOk
    \/ ReplyFail
    \/ \E i \in 1..Len(TimedMessages) : TimerFire(i)

Spec == Init /\ [][Next]_vars

\* ---------------------------------------------------------------- table build
\* command definitions a bot.yml may hold; "" is a missing or empty field
Defs ==
    { [trigger |-> <<"!", "h">>, response |-> <<"a">>, aliases |-> << >>],
      [trigger |-> <<"!", "H">>, response |-> <<"b">>, aliases |-> << <<"!", "P">> >>],
      [trigger |-> <<"!", "p">>, response |-> <<"c">>,
       aliases |-> << <<"!", "h">>, <<"!", "H">> >>],
      [trigger |-> <<"!", "p">>, response |-> << >>, aliases |-> << <<"!", "h">> >>],
      [trigger |-> << >>, response |-> <<"d">>, aliases |-> << <<"!", "p">> >>] }

\* sequences over S of length at most n
RECURSIVE SeqsUpTo(_, _)
SeqsUpTo(S, n) ==
    IF n <= 0 THEN { << >> }
    ELSE LET shorter == SeqsUpTo(S, n - 1)
         IN  shorter \cup { Append(q, x) : q \in shorter, x \in S }

\* module load before the table is built, for any bot.yml of up to MaxDefs definitions
InitTable ==
    /\ pc = "load"
    /\ exitCode = -1
    /\ liveChatId = NoChat
    /\ cmdDefs \in SeqsUpTo(Defs, MaxDefs)
    /\ loadIdx = 0
    /\ commands = {}
    /\ webhook = [section |-> TRUE, enable |-> FALSE, url |-> "u"]
    /\ participants = StartupFile
    /\ file = StartupFile
    /\ script = << >>
    /\ posted = 0
    /\ polls = 0
    /\ poll = "off"
    /\ step = "none"
    /\ cur = 0
    /\ res = NoRes
    /\ nextPageToken = Null
    /\ firstRun = TRUE
    /\ delay = 0
    /\ active = 0
    /\ timeouts = 0
    /\ err = NoErr
    /\ log = << >>
    /\ timedLog = EmptyBag
    /\ bres = << >>
    /\ call = NoCall
    /\ ret = NoRet

\* one iteration of botYml.commands.forEach
LoadStep ==
    /\ pc = "load" /\ loadIdx < Len(cmdDefs)
    /\ commands' = LoadCommand(commands, cmdDefs[loadIdx + 1])
    /\ loadIdx' = loadIdx + 1
    /\ UNCHANGED <<pc, exitCode, liveChatId, cmdDefs, webhook, participants, file,
                   script, posted, polls, poll, step, cur, res, nextPageToken,
                   firstRun, delay, active, timeouts, err, log, timedLog, bres,
                   call, ret>>

SpecTable == InitTable /\ [][LoadStep]_vars

\* ---------------------------------------------------------------- function-level runs
\* every variable but call and ret
Others == <<pc, exitCode, liveChatId, cmdDefs, loadIdx, commands, webhook,
            participants, file, script, posted, polls, poll, step, cur, res,
            nextPageToken, firstRun, delay, active, timeouts, err, log, timedLog, bres>>

\* the process before anything is started: the function is called on its own
Standalone ==
    /\ exitCode = -1
    /\ liveChatId = NoChat
    /\ cmdDefs = BotCommands
    /\ loadIdx = Len(BotCommands)
    /\ commands = LoadCommands({}, BotCommands, Len(BotCommands))
    /\ webhook = [section |-> TRUE, enable |-> FALSE, url |-> "u"]
    /\ participants = StartupFile
    /\ file = StartupFile
    /\ script = << >>
    /\ posted = 0
    /\ polls = 0
    /\ poll = "off"
    /\ step = "none"
    /\ cur = 0
    /\ res = NoRes
    /\ nextPageToken = Null
    /\ firstRun = TRUE
    /\ delay = 0
    /\ active = 0
    /\ timeouts = 0
    /\ err = NoErr
    /\ log = << >>
    /\ timedLog = EmptyBag
    /\ bres = << >>

\* ---------------------------------------------------------------- uptime
MaxHours == 2       \* whole hours of the small elapsed times

\* the decimal digits of the template literal's number conversion
Digits == <<"0", "1", "2", "3", "4", "5", "6", "7", "8", "9">>

\* `${n}` for a non-negative integer n
RECURSIVE NumberToString(_)
NumberToString(n) ==
    IF n < 10 THEN <<Digits[n + 1]>>
    ELSE Append(NumberToString(n \div 10), Digits[(n % 10) + 1])

\* an uptime whose minutes are not reduced modulo 60
FormatUptimeMut(diff) ==
    LET secs == (diff \div 1000) % 60
        mins == diff \div 60000
        hours == diff \div 3600000
    IN  NumberToString(hours) \o <<"h", " ">> \o NumberToString(mins) \o <<"m", " ">>
            \o NumberToString(secs) \o <<"s">>

\* formatUptime, from diff = Date.now() - startTime on
FormatUptime(diff) ==
    LET secs == (diff \div 1000) % 60
        mins == (diff \div 60000) % 60
        hours == diff \div 3600000
    IN  NumberToString(hours) \o <<"h", " ">> \o NumberToString(mins) \o <<"m", " ">>
            \o NumberToString(secs) \o <<"s">>

\* elapsed times: around every unit boundary, and hour counts of 1, 2 and 3 digits
Diffs ==
    { h * 3600000 + m * 60000 + s * 1000 + ms :
        h \in (0..MaxHours) \cup {25, 100}, m \in {0, 2, 10, 59},
        s \in {0, 5, 10, 59}, ms \in {0, 1, 999} }

\* formatUptime is about to be called diff milliseconds after startTime
InitUptime ==
    /\ pc = "uptime"
    /\ call \in { [diff |-> d] : d \in Diffs }
    /\ ret = NoRet
    /\ Standalone

\* the call formatUptime(startTime)
CallFormatUptime ==
    /\ pc = "uptime" /\ ~ret.done
    /\ ret' = Returned(FormatUptime(call.diff))
    /\ UNCHANGED <<Others, call>>

SpecUptime == InitUptime /\ [][CallFormatUptime]_vars

\* ---------------------------------------------------------------- word filter
\* badWords entries of bot.yml, in either letter case
Words == { <<"x">>, <<"X">>, <<"h", "q">>, <<"H", "q">> }

\* message texts, in either letter case
Messages ==
    { << >>, <<"x">>, <<"X">>, <<"a", "X">>, <<"a", "x", "a">>, <<"h", "q">>,
      <<"H", "Q">>, <<"h", " ", "q">>, <<"p">> }

\* the word filter is about to test a message against some badWords list
InitFilter ==
    /\ pc = "filter"
    /\ call \in { [badWords |-> ws, message |-> t] : ws \in SUBSET Words, t \in Messages }
    /\ ret = NoRet
    /\ Standalone

\* the condition of the word filter's if
CallFilter ==
    /\ pc = "filter" /\ ~ret.done
    /\ ret' = Returned(SomeBanned(call.badWords, call.message))
    /\ UNCHANGED <<Others, call>>

SpecFilter == InitFilter /\ [][CallFilter]_vars

\* ---------------------------------------------------------------- reply rendering
\* the placeholders of a response template
UserPh == <<"{", "u", "s", "e", "r", "}">>
UptimePh == <<"{", "u", "p", "t", "i", "m", "e", "}">>
ArgsPh == <<"{", "a", "r", "g", "s", "}">>

\* String.prototype.indexOf: position of the first occurrence of w in s, 0 if none
IndexOf(s, w) ==
    IF Includes(s, w)
    THEN CHOOSE i \in 1..(Len(s) - Len(w) + 1) :
            /\ SubSeq(s, i, i + Len(w) - 1) = w
            /\ \A j \in 1..(i - 1) : SubSeq(s, j, j + Len(w) - 1) # w
    ELSE 0

\* the replacement patterns of String.prototype.replace that the texts can
\* hold: "$$" stands for "$" and "$&" for the matched substring
RECURSIVE Expand(_, _)
Expand(r, matched) ==
    IF Len(r) = 0 THEN << >>
    ELSE IF Len(r) >= 2 /\ r[1] = "$" /\ r[2] = "$"
         THEN <<"$">> \o Expand(SubSeq(r, 3, Len(r)), matched)
    ELSE IF Len(r) >= 2 /\ r[1] = "$" /\ r[2] = "&"
         THEN matched \o Expand(SubSeq(r, 3, Len(r)), matched)
    ELSE <<r[1]>> \o Expand(Tail(r), matched)

\* s.replace(w, r) with a string pattern: the first occurrence only
Replace(s, w, r) ==
    LET i == IndexOf(s, w)
    IN  IF i = 0 THEN s
        ELSE SubSeq(s, 1, i - 1) \o Expand(r, w) \o SubSeq(s, i + Len(w), Len(s))

\* s.split(" ")
RECURSIVE Split(_)
Split(s) ==
    LET i == IndexOf(s, <<" ">>)
    IN  IF i = 0 THEN <<s>>
        ELSE <<SubSeq(s, 1, i - 1)>> \o Split(SubSeq(s, i + 1, Len(s)))

\* parts.join(" ")
RECURSIVE Join(_)
Join(parts) ==
    IF Len(parts) = 0 THEN << >>
    ELSE IF Len(parts) = 1 THEN parts[1]
    ELSE parts[1] \o <<" ">> \o Join(Tail(parts))

\* the reply of the command handler: the three replace calls on cmdObj.response
Render(response, user, message, diff) ==
    LET named == Replace(response, UserPh, user)
        timed == Replace(named, UptimePh, FormatUptime(diff))
        args == Join(Tail(Split(message)))
    IN  IF Includes(timed, ArgsPh) THEN Replace(timed, ArgsPh, args) ELSE timed

\* response templates, each placeholder at most once
Responses ==
    { <<"h", "i", " ", "{", "u", "s", "e", "r", "}">>,
      <<"{", "u", "p", "t", "i", "m", "e", "}">>,
      <<"{", "u", "s", "e", "r", "}", ":", " ", "{", "a", "r", "g", "s", "}">>,
      <<"{", "a", "r", "g", "s", "}", " ", "{", "u", "s", "e", "r", "}">>,
      <<"o", "k">> }

\* display names: a plain one, and names that spell a placeholder or a
\* replacement pattern
DisplayNames ==
    { <<"A">>, UptimePh, ArgsPh, <<"$", "&">> }

\* messages that matched a key: without and with text after the first token
Matched ==
    { <<"!", "h">>,
      <<"!", "s", "o", " ", "b", "o", "b">>,
      <<"!", "s", "o", " ", "b", "o", "b", " ", "x">> }

\* elapsed times at the moment of the reply
ReplyDiffs == { 5000, 3725000 }

\* the command handler has found cmdObj and is about to build the reply
InitRender ==
    /\ pc = "render"
    /\ call \in { [response |-> r, user |-> u, message |-> t, diff |-> d] :
                    r \in Responses, u \in DisplayNames, t \in Matched, d \in ReplyDiffs }
    /\ ret = NoRet
    /\ Standalone

\* the reply is built
CallRender ==
    /\ pc = "render" /\ ~ret.done
    /\ ret' = Returned(Render(call.response, call.user, call.message, call.diff))
    /\ UNCHANGED <<Others, call>>

SpecRender == InitRender /\ [][CallRender]_vars

\* ================================================================ properties
\* A pass is one run of the pipeline over one item: it starts at the item's
\* "recv" entry of log and ends before the next "recv" entry.
Positions == 1..Len(log)
RecvAt(p) == log[p].kind = "recv"
PassEnd(p) ==
    IF \E q \in (p + 1)..Len(log) : RecvAt(q)
    THEN CHOOSE q \in (p + 1)..Len(log) : RecvAt(q) /\ \A r \in (p + 1)..(q - 1) : ~RecvAt(r)
    ELSE Len(log) + 1
PassOf(p) == { q \in (p + 1)..(PassEnd(p) - 1) : log[q].idx = log[p].idx }
\* the poller has left the pass
PassDone(p) == PassEnd(p) <= Len(log) \/ poll # "await"
Has(p, kind) == \E q \in PassOf(p) : log[q].kind = kind
TextOf(p) == script[log[p].idx].text
\* the text holds a banned word, compared without regard to case
HoldsBanned(text) == \E w \in BadWords : Includes(ToLowerCase(text), ToLowerCase(w))
\* the full lowercased text is a loaded trigger or alias
IsKey(text) == ToLowerCase(text) \in OwnKeys(commands)

\* C1: every message that reaches the pipeline and holds a banned word gets a
\* warning reply and (with the webhook on) a moderation notice, and no command reply.
C1_ModeratedAlwaysWarned ==
    \A p \in Positions :
        RecvAt(p) /\ PassDone(p) /\ HoldsBanned(TextOf(p)) =>
            /\ Has(p, "warn")
            /\ HookOn => Has(p, "notice")
            /\ ~Has(p, "reply")

\* welcome replies delivered to display names of author a
Welcomed(a) ==
    Cardinality({ q \in Positions :
        log[q].kind = "welcome" /\ log[q].ok /\ script[log[q].idx].id = a })
AuthorIds == { script[k].id : k \in 1..Len(script) }
\* the author is in the store loaded at startup
KnownAtStartup(a) == \E k \in 1..Len(script) : script[k].id = a /\ script[k].name \in StartupFile
\* a message of the author went through the pipeline and the cursor has passed it
Consumed(a) ==
    \E p \in Positions :
        RecvAt(p) /\ script[log[p].idx].id = a /\ log[p].idx <= PageFrom(nextPageToken)

\* C2: an author who is not in the store and whose message went through the
\* pipeline is welcomed exactly once; an author of the startup store never.
C2_ExactlyOneWelcomePerAuthor ==
    \A a \in AuthorIds :
        /\ Welcomed(a) <= 1
        /\ KnownAtStartup(a) => Welcomed(a) = 0
        /\ ~KnownAtStartup(a) /\ Consumed(a) => Welcomed(a) = 1

\* the step is the answer of a list call, handled by the try block
ListAnswered == poll = "list" /\ poll' # "list" /\ err' = NoErr

\* C3: the first successful poll has no effect but the cursor and the first-run
\* flag (and the timer of the next poll), whatever items it returned; until then
\* nothing has been sent, relayed or stored (the store is as loaded, in a
\* process that got as far as loading it).
C3_FirstPollDiscarded ==
    /\ [](firstRun => log \in Seq({Entry("error", 0, FALSE)})
                      /\ (webhook.section => participants = StartupFile)
                      /\ file = StartupFile)
    /\ [][ListAnswered /\ firstRun =>
            /\ log' = log /\ participants' = participants /\ file' = file
            /\ timedLog' = timedLog
            /\ firstRun' = FALSE /\ nextPageToken' = posted'
            /\ poll' = "timer"]_vars

\* the first poll returned items and nothing happened
C3_Witness ==
    /\ polls = 1 /\ ~firstRun /\ posted = 2 /\ nextPageToken = 2
    /\ log = << >> /\ participants = StartupFile /\ poll = "timer"

\* C4: once started, a poll is in flight or a poll timer is pending, whatever failed.
C4_AlwaysRescheduled ==
    pc = "running" =>
        \/ poll \in {"list", "await"}
        \/ poll = "timer" /\ delay > 0

\* a poll failed in the command handler and the next poll is scheduled
C4_Witness ==
    /\ pc = "running" /\ poll = "timer" /\ err = TypeErrorMsg
    /\ \E p \in Positions : log[p].kind = "welcome" /\ log[p].ok

\* the text holds q-u-o-t-a at some position
HoldsQuota(msg) ==
    \E i \in 1..Len(msg) :
        /\ i + 4 <= Len(msg)
        /\ msg[i] = "q" /\ msg[i + 1] = "u" /\ msg[i + 2] = "o"
        /\ msg[i + 3] = "t" /\ msg[i + 4] = "a"

\* C5: after a failed poll the next poll is 60000 ms away if the error's
\* description holds "quota", and 10000 ms away otherwise.
C5_BackoffByQuota ==
    poll = "timer" /\ err # NoErr =>
        delay = IF HoldsQuota(err) THEN 60000 ELSE 10000

C5_Witness == poll = "timer" /\ err # NoErr /\ HoldsQuota(err) /\ delay = 60000 /\ Len(err) > 5

\* C6: the relay is attempted first, and a failed relay does not keep the
\* warning or the command reply of the same message from being sent.
C6_RelayFailureDoesNotBlock ==
    \A p \in Positions :
        RecvAt(p) /\ PassDone(p) /\ HookOn =>
            /\ p < Len(log) /\ log[p + 1].kind = "relay"
            /\ ~log[p + 1].ok =>
                  /\ HoldsBanned(TextOf(p)) => Has(p, "warn")
                  /\ ~HoldsBanned(TextOf(p)) /\ IsKey(TextOf(p)) => Has(p, "reply")

\* no send and no relay of the pass failed
NoSendFailed(p) == \A q \in PassOf(p) : log[q].kind # "error" => log[q].ok
\* the poll was abandoned in this pass
Aborted(p) == Has(p, "error")

\* C7: for a message that is not moderated (and whose sends all succeed) a command
\* reply is sent exactly if the full lowercased text is a loaded key, and a text
\* that is no loaded key lets the batch go on.
C7_ReplyIffExactKey ==
    \A p \in Positions :
        RecvAt(p) /\ PassDone(p) /\ ~HoldsBanned(TextOf(p)) /\ NoSendFailed(p) =>
            /\ Has(p, "reply") <=> IsKey(TextOf(p))
            /\ ~IsKey(TextOf(p)) => ~Aborted(p)

\* the definition would store key k: its lowercased trigger or one of its lowercased aliases
Produces(d, k) ==
    \/ ToLowerCase(d.trigger) = k
    \/ \E i \in 1..Len(d.aliases) : ToLowerCase(d.aliases[i]) = k
\* the definition has a trigger and a response
Loadable(d) == d.trigger # << >> /\ d.response # << >>
\* keys the definitions read so far would store
KeysRead == { k \in UNION { {ToLowerCase(cmdDefs[j].trigger)}
                            \cup { ToLowerCase(cmdDefs[j].aliases[i]) :
                                     i \in 1..Len(cmdDefs[j].aliases) } :
                            j \in 1..loadIdx } : TRUE }
Last(J) == CHOOSE j \in J : \A i \in J : i <= j
\* key k is stored once and maps to the response of the last definition of J
MapsToLast(k, J) ==
    /\ Cardinality({ e \in commands : e.key = k }) = 1
    /\ \A e \in commands : e.key = k => e.response = cmdDefs[Last(J)].response

\* C8 as stated: every trigger and alias read so far is stored under its
\* lowercased text and maps to the response of the last definition giving that key.
C8_LastDefinitionWins ==
    pc = "load" =>
        \A k \in KeysRead :
            MapsToLast(k, { j \in 1..loadIdx : Produces(cmdDefs[j], k) })

\* C8 as amended: the same among the definitions that have both a trigger and a
\* response; a definition lacking either stores nothing, and nothing else is stored.
C8_LastLoadableDefinitionWins ==
    pc = "load" =>
        /\ \A k \in KeysRead :
              LET J == { j \in 1..loadIdx : Loadable(cmdDefs[j]) /\ Produces(cmdDefs[j], k) }
              IN  IF J = {} THEN k \notin OwnKeys(commands) ELSE MapsToLast(k, J)
        /\ OwnKeys(commands) \subseteq KeysRead

\* two loadable definitions gave the key "!h", one by a trigger in capitals, and
\* the later one's response is stored
C8_Witness ==
    /\ pc = "load" /\ loadIdx = Len(cmdDefs) /\ loadIdx >= 2
    /\ \E i, j \in 1..loadIdx :
          /\ i < j /\ Loadable(cmdDefs[i]) /\ Loadable(cmdDefs[j])
          /\ cmdDefs[i].trigger = <<"!", "h">> /\ cmdDefs[j].trigger = <<"!", "H">>
          /\ \A m \in (j + 1)..loadIdx : ~Produces(cmdDefs[m], <<"!", "h">>)
          /\ [key |-> <<"!", "h">>, response |-> cmdDefs[j].response] \in commands
          /\ cmdDefs[i].response # cmdDefs[j].response

\* what a step of a timer callback leaves alone
PollerState == <<pc, poll, step, cur, res, nextPageToken, firstRun, delay, err, log,
                 polls, posted, participants, file>>

\* C9: a timed message is sent as its configured text, once per firing, and the
\* timers can fire in every state of the poller.
C9_TimersLiteralAndIndependent ==
    /\ [](pc = "running" /\ BagCardinality(timedLog) < MaxTimed =>
            \A i \in 1..Len(TimedMessages) : ENABLED TimerFire(i))
    /\ [](\A e \in BagToSet(timedLog) : e.text = TimedMessages[e.timer])
    /\ [][timedLog' # timedLog =>
            /\ BagCardinality(timedLog') = BagCardinality(timedLog) + 1
            /\ UNCHANGED PollerState]_vars

\* the timer of the text with a placeholder fired twice, before the first
\* successful poll, and the poller waits in the 60000 ms backoff
C9_Witness ==
    /\ \E e \in BagToSet(timedLog) :
          /\ e.timer = 2 /\ e.text = <<"{", "u", "s", "e", "r", "}">>
          /\ CopiesIn(e, timedLog) = 2
    /\ poll = "timer" /\ delay = 60000 /\ firstRun

NoLive(items) == \A i \in 1..Len(items) : items[i].status # "live"

\* C10: the poller starts only with the liveChatId of a broadcast whose status is
\* exactly "live"; without one the process exits nonzero and nothing is polled,
\* timed or sent.
C10_StartOnlyWhenLive ==
    /\ [](pc = "exited" =>
            /\ exitCode # 0 /\ exitCode # -1
            /\ polls = 0 /\ poll = "off" /\ log = << >> /\ timedLog = EmptyBag)
    /\ [](polls > 0 \/ poll # "off" \/ log # << >> \/ timedLog # EmptyBag =>
            pc = "running" /\ liveChatId # NoChat)
    /\ [][pc = "lookup" /\ pc' = "running" =>
            \E i \in 1..Len(bres) :
                bres[i].status = "live" /\ liveChatId' = bres[i].liveChatId]_vars
    /\ [][pc = "lookup" /\ pc' # "lookup" /\ NoLive(bres) =>
            pc' = "exited" /\ exitCode' = 1]_vars

\* the list held broadcasts, none of them live, and the process has exited
C10_Witness ==
    /\ pc = "exited" /\ exitCode = 1
    /\ Len(bres) = 2 /\ NoLive(bres)
    /\ polls = 0 /\ log = << >>

\* C11: for every non-negative elapsed time d the uptime reads "{h}h {m}m {s}s"
\* where h, m < 60 and s < 60 are the whole hours, minutes and seconds of d:
\* 3600000*h + 60000*m + 1000*s <= d < 3600000*h + 60000*m + 1000*s + 1000.
C11_UptimeIsHoursMinutesSeconds ==
    pc = "uptime" /\ ret.done =>
        \E h \in 0..101 :
            /\ 3600000 * h <= call.diff /\ call.diff < 3600000 * (h + 1)
            /\ \E m \in 0..59 :
                /\ 3600000 * h + 60000 * m <= call.diff
                /\ call.diff < 3600000 * h + 60000 * (m + 1)
                /\ \E s \in 0..59 :
                    /\ 3600000 * h + 60000 * m + 1000 * s <= call.diff
                    /\ call.diff < 3600000 * h + 60000 * m + 1000 * s + 1000
                    /\ ret.value = NumberToString(h) \o <<"h", " ">> \o NumberToString(m) \o <<"m", " ">>
                                \o NumberToString(s) \o <<"s">>

\* 3725000 ms have been rendered as "1h 2m 5s"
C11_Witness ==
    /\ pc = "uptime" /\ call.diff = 3725000 /\ ret.done
    /\ ret.value = <<"1", "h", " ", "2", "m", " ", "5", "s">>

\* C12: a message is moderated exactly when its text holds some configured
\* banned word as a substring, compared without regard to letter case, in
\* whatever case the text and the configured word are written.
C12_ModeratedIffHoldsBannedAnyCase ==
    pc = "filter" /\ ret.done =>
        (ret.value <=>
            \E w \in call.badWords :
                Includes(ToLowerCase(call.message), ToLowerCase(w)))

\* the entries a step appends to log
Appended == { q \in 1..Len(log') : q > Len(log) }

\* C13: on every poll after the first successful one the items of the batch
\* are processed one at a time in arrival order: while the poller is suspended
\* it is inside exactly one item, every effect a step issues belongs to that
\* item, the next item is entered only by the step that completes the current
\* item's last call, it is the item that arrived next, and the batch ends
\* after its last item.
C13_OneItemAtATimeInArrivalOrder ==
    /\ [](poll = "await" =>
            /\ Len(log) > 0 /\ cur >= res.first /\ cur <= res.last
            /\ \E p \in Positions :
                    /\ RecvAt(p) /\ log[p].idx = cur
                    /\ \A q \in (p + 1)..Len(log) : ~RecvAt(q) /\ log[q].idx = cur)
    /\ [][/\ Len(log') >= Len(log) /\ SubSeq(log', 1, Len(log)) = log
          /\ \A q \in Appended :
                IF log'[q].kind = "recv"
                THEN /\ log'[q].idx = (IF poll = "list" THEN res'.first ELSE cur + 1)
                     /\ q = Len(log') /\ cur' = log'[q].idx
                     /\ poll \in {"list", "await"}
                ELSE log'[q].idx = cur /\ (log'[q].kind # "error" => poll = "await")
          /\ (participants' # participants =>
                poll = "await" /\ participants' = participants \cup {script[cur].name})
          /\ (poll = "await" /\ poll' = "timer" /\ err' = NoErr => cur = res.last)]_vars

\* a batch of two items has been processed to its end: the reply to item 1
\* came before item 2 was entered, the warning to item 2 after
C13_Witness ==
    /\ poll = "timer" /\ err = NoErr /\ res.first = 1 /\ res.last = 2
    /\ \E p, q, r \in Positions :
          /\ p < q /\ q < r
          /\ log[p] = Entry("reply", 1, TRUE)
          /\ log[q] = Entry("recv", 2, TRUE)
          /\ log[r] = Entry("warn", 2, TRUE)

\* the step is one of the poller
PollerMoved == <<poll, step, cur, log>>' # <<poll, step, cur, log>>

\* C14: welcoming is additive.  When the pipeline reaches the welcome check
\* with a display name that is not in the store, the name is inserted and the
\* welcome is sent before anything else for that message; once the welcome is
\* sent, the same message goes on to the word filter and the command handler:
\* a text with a banned word gets the warning next, a command gets its reply
\* next, and in every pass the welcome comes before the warning or the reply.
C14_WelcomeThenModerationAndCommands ==
    /\ [](\A p \in Positions : RecvAt(p) =>
            /\ \A q, r \in PassOf(p) :
                    log[q].kind = "welcome" /\ log[r].kind \in {"warn", "notice", "reply"}
                        => q < r
            /\ (\E q \in PassOf(p) : log[q].kind = "welcome" /\ log[q].ok) /\ PassDone(p) =>
                    /\ script[log[p].idx].name \in participants
                    /\ HoldsBanned(TextOf(p)) => Has(p, "warn") /\ ~Has(p, "reply")
                    /\ ~HoldsBanned(TextOf(p)) /\ IsKey(TextOf(p)) => Has(p, "reply"))
    /\ [][/\ (/\ poll = "await" /\ step = "relay" /\ script[cur].name \notin participants
              /\ PollerMoved /\ poll' # "timer")
                => /\ participants' = participants \cup {script[cur].name}
                   /\ poll' = "await" /\ step' = "welcome" /\ cur' = cur
          /\ (/\ poll = "await" /\ step = "welcome"
              /\ Len(log') > Len(log) /\ log'[Len(log) + 1] = Entry("welcome", cur, TRUE))
                => /\ HoldsBanned(script[cur].text)
                        => poll' = "await" /\ step' = "warn" /\ cur' = cur
                   /\ ~HoldsBanned(script[cur].text) /\ IsKey(script[cur].text)
                        => poll' = "await" /\ step' = "reply" /\ cur' = cur]_vars

\* a first message that is a command got welcome then reply, and a first
\* message with a banned word got welcome then warning
C14_Witness ==
    \E p1, p2, q1, q2 \in Positions :
        /\ p1 < q1 /\ q1 < p2 /\ p2 < q2
        /\ log[p1] = Entry("welcome", 1, TRUE) /\ log[q1] = Entry("reply", 1, TRUE)
        /\ log[p2] = Entry("welcome", 2, TRUE) /\ log[q2] = Entry("warn", 2, TRUE)
        /\ IsKey(script[1].text) /\ HoldsBanned(script[2].text)
        /\ {script[1].name, script[2].name} \subseteq participants \ StartupFile

\* the step ends a poll through the end of its try block
PollCompletes == poll \in {"list", "await"} /\ poll' = "timer" /\ err' = NoErr

\* C15 as stated: the cursor is null on the first list call, and once a list
\* call has been answered the cursor is the token that the most recent
\* answered list call returned, whenever the poller is between two polls or
\* issues a list call.  Stated for the runs without a relay, where the only
\* calls that can reject are the chat sends.
C15_CursorFollowsEveryAnsweredList ==
    ~HookOn /\ poll \in {"off", "list", "timer"} => nextPageToken = res.nextPageToken

\* C15, amended: the cursor is null on the first list call; a list call is
\* answered from the cursor on; a poll that completes without error sets the
\* cursor to the token its list call returned; every other step, the catch of
\* a poll whose list call was answered included, leaves the cursor unchanged.
C15_CursorFollowsEveryCompletedPoll ==
    /\ [](polls <= 1 /\ poll \in {"off", "list"} => nextPageToken = Null)
    /\ [][/\ (poll = "list" /\ res' # res => res'.first = PageFrom(nextPageToken) + 1)
          /\ (PollCompletes => nextPageToken' = res'.nextPageToken)
          /\ (~PollCompletes => nextPageToken' = nextPageToken)]_vars

\* a poll whose list call was answered ended in the catch, and a later poll
\* completed and moved the cursor to the end of the chat
C15_Witness ==
    /\ poll = "timer" /\ err = NoErr
    /\ nextPageToken = Len(script) /\ res.nextPageToken = Len(script)
    /\ \E p \in Positions : log[p].kind = "error" /\ log[p].idx > 0

\* the last poll completed through the end of its try block
LastPollCompleted == poll = "timer" /\ err = NoErr

\* C16 as stated, the implementation minimum being the 5000 ms that the code
\* falls back to, the only interval it names for a successful poll: after a
\* successful poll the delay is the larger of the suggestion and the minimum,
\* so never below the minimum.
C16_DelayNeverBelowMinimum ==
    LastPollCompleted =>
        /\ delay >= 5000
        /\ delay = (IF res.pollingIntervalMillis > 5000
                    THEN res.pollingIntervalMillis ELSE 5000)

\* C16, amended: after a successful poll the next poll is scheduled after
\* exactly the interval the provider suggested, whatever its value, and after
\* 5000 ms if it suggested none.
C16_DelayIsSuggestionOrDefault ==
    [][PollCompletes =>
        /\ (res'.pollingIntervalMillis # 0 => delay' = res'.pollingIntervalMillis)
        /\ (res'.pollingIntervalMillis = 0 => delay' = 5000)]_vars

\* a poll that was told 1000 ms is followed by a timer of 1000 ms
C16_Witness ==
    LastPollCompleted /\ res.pollingIntervalMillis = 1000 /\ delay = 1000

\* the text after the first token of a message, the empty text if there is none
ArgsOf(message) ==
    IF \E i \in 1..Len(message) : message[i] = " "
    THEN LET i == CHOOSE k \in 1..Len(message) :
                    message[k] = " " /\ \A j \in 1..(k - 1) : message[j] # " "
         IN  SubSeq(message, i + 1, Len(message))
    ELSE << >>
\* the template starts with placeholder ph
StartsWith(t, ph) == Len(t) >= Len(ph) /\ SubSeq(t, 1, Len(ph)) = ph
\* the template with each of its own placeholders filled in, read left to
\* right; the filled-in texts are copied as they are
RECURSIVE Filled(_, _, _, _)
Filled(t, user, uptime, args) ==
    IF Len(t) = 0 THEN << >>
    ELSE IF StartsWith(t, UserPh)
         THEN user \o Filled(SubSeq(t, Len(UserPh) + 1, Len(t)), user, uptime, args)
    ELSE IF StartsWith(t, UptimePh)
         THEN uptime \o Filled(SubSeq(t, Len(UptimePh) + 1, Len(t)), user, uptime, args)
    ELSE IF StartsWith(t, ArgsPh)
         THEN args \o Filled(SubSeq(t, Len(ArgsPh) + 1, Len(t)), user, uptime, args)
    ELSE <<t[1]>> \o Filled(Tail(t), user, uptime, args)

\* C17: the reply to a matched command is its response template with {user}
\* replaced by the display name, {uptime} by the formatted uptime, and {args},
\* only where the template holds it, by the message without its first token;
\* the display name and the message are copied into the reply as they are,
\* never read as placeholders themselves.
C17_OnlyTemplatePlaceholdersAreFilled ==
    pc = "render" /\ ret.done =>
        ret.value = Filled(call.response, call.user, FormatUptime(call.diff),
                           ArgsOf(call.message))

\* timed sends that failed
FailedTimed == { e \in BagToSet(timedLog) : ~e.ok }

\* C18: a timed send that fails is caught: the process lives on, the step
\* changes nothing of the poller, and afterwards every timer, the one whose
\* send failed included, can still fire and the poller can still take its
\* next poll.
C18_FailedTimedSendStopsNothing ==
    /\ [](FailedTimed # {} =>
            /\ pc = "running" /\ exitCode = -1
            /\ (BagCardinality(timedLog) < MaxTimed =>
                    \A e \in FailedTimed : ENABLED TimerFire(e.timer))
            /\ (BagCardinality(timedLog) < MaxTimed =>
                    \A i \in 1..Len(TimedMessages) : ENABLED TimerFire(i))
            /\ (poll = "timer" /\ polls < MaxPolls => ENABLED PollChat))
    /\ [][(\E e \in BagToSet(timedLog') :
                ~e.ok /\ CopiesIn(e, timedLog') > CopiesIn(e, timedLog))
            => UNCHANGED PollerState /\ exitCode' = exitCode]_vars

\* the send of timed message 1 failed, was attempted again at its next
\* interval and failed again, while the poller is in the middle of a batch
C18_Witness ==
    /\ \E e \in FailedTimed : e.timer = 1 /\ CopiesIn(e, timedLog) = 2
    /\ poll = "await" /\ ~firstRun

\* the step inserts a display name and the write of participants.json fails
PersistFails == participants' # participants /\ file' = file

\* the error entry at position q of log is that of a failed list call, of a
\* failed send or relay, or of the TypeError of a prototype key
Explained(q) ==
    \/ log[q].idx = 0
    \/ q > 1 /\ ~log[q - 1].ok /\ log[q - 1].idx = log[q].idx
    \/ ToLowerCase(script[log[q].idx].text) \in ProtoKeys

\* C19: a failed write of the store is swallowed.  The step in which it fails
\* keeps the new name in the in-memory set and goes on to the welcome send of
\* the same item, with no error caught and no timer set; names never leave the
\* set; and no poll ever ends in the catch because of it: every caught error
\* has another cause, so a poll with no failing call completes as a successful
\* one whatever happened to the file.
C19_PersistFailureIsSwallowed ==
    /\ [][PersistFails =>
            /\ participants' = participants \cup {script[cur].name}
            /\ poll' = "await" /\ step' = "welcome" /\ cur' = cur
            /\ UNCHANGED <<err, delay, nextPageToken, firstRun, res>>
            /\ \A q \in Appended : log'[q].kind # "error"]_vars
    /\ [][participants \subseteq participants']_vars
    /\ [](\A q \in Positions : log[q].kind = "error" => Explained(q))
    /\ [](poll = "timer" /\ polls > 0 /\ err # NoErr =>
            Len(log) > 0 /\ log[Len(log)].kind = "error")

\* both writes of a batch of two new names failed: the file is as at startup,
\* both names are in the set, both were welcomed, and the poll completed with
\* the cursor advanced and the normal interval
C19_Witness ==
    /\ file = StartupFile /\ Cardinality(participants \ StartupFile) = 2
    /\ poll = "timer" /\ err = NoErr /\ res.first = 1 /\ res.last = 2
    /\ nextPageToken = 2 /\ delay = 8000 /\ res.pollingIntervalMillis = 8000
    /\ \E p, q \in Positions :
          log[p] = Entry("welcome", 1, TRUE) /\ log[q] = Entry("welcome", 2, TRUE)

\* the webhook is unconfigured, disabled or has no url
HookOff == ~webhook.section \/ ~webhook.enable \/ webhook.url = ""
\* no relay call was ever issued
NothingRelayed == \A q \in Positions : log[q].kind \notin {"relay", "notice"}
\* the step is the return of the forwarding call s of the current item: of
\* the no-op, or of a post that went through
Forwarded(s) ==
    /\ poll = "await" /\ step = s /\ PollerMoved
    /\ \/ HookOff
       \/ Len(log') > Len(log) /\ log'[Len(log) + 1] = Entry(s, cur, TRUE)
\* where the pipeline goes after the word filter and the command handler found
\* nothing to do for the current item
GoesOn ==
    /\ (cur < res.last => poll' = "await" /\ step' = "relay" /\ cur' = cur + 1)
    /\ (cur >= res.last => poll' = "timer" /\ err' = NoErr
                            /\ nextPageToken' = res.nextPageToken)
\* the chat side of the pipeline after the relay of the current item
ChatSideAfterRelay ==
    LET user == script[cur].name
        text == script[cur].text
    IN  IF user \notin participants
        THEN /\ participants' = participants \cup {user}
             /\ poll' = "await" /\ step' = "welcome" /\ cur' = cur
        ELSE /\ participants' = participants /\ file' = file
             /\ IF HoldsBanned(text) THEN poll' = "await" /\ step' = "warn" /\ cur' = cur
                ELSE IF IsKey(text) THEN poll' = "await" /\ step' = "reply" /\ cur' = cur
                ELSE IF ToLowerCase(text) \in ProtoKeys THEN poll' = "timer" /\ err' # NoErr
                ELSE GoesOn

C21_AtMostOnePollActive ==
    /\ [](/\ active >= 0 /\ timeouts >= 0 /\ active + timeouts <= 1
          /\ (active = 1 <=> poll \in {"list", "await"})
          /\ (timeouts = 1 <=> poll = "timer"))
    /\ [][/\ (timeouts' > timeouts =>
                /\ active = 1 /\ active' = 0 /\ timeouts' = timeouts + 1
                /\ poll \in {"list", "await"} /\ poll' = "timer")
          /\ (active' > active =>
                /\ active' = active + 1 /\ polls' = polls + 1
                /\ \/ pc = "lookup" /\ polls = 0 /\ timeouts' = timeouts
                   \/ timeouts' = timeouts - 1)
          /\ (timedLog' # timedLog => UNCHANGED <<active, timeouts, polls, poll>>)]_vars

\* a timed announcement has been sent and the third poll is suspended in a
\* batch, after one poll that ended in the catch and one that completed
C21_Witness ==
    /\ poll = "await" /\ active = 1 /\ timeouts = 0 /\ polls = 3
    /\ timedLog # EmptyBag /\ ~firstRun
    /\ \E q \in Positions : log[q].kind = "error"

\* the step is the rejection of a list call
ListFails == poll = "list" /\ poll' = "timer" /\ err' # NoErr

\* C22: a poll whose list call fails changes neither the cursor nor the
\* first-run flag and has no effect of the pipeline: nothing is sent, relayed
\* or stored, only the error is logged.  So the flag is set exactly as long as
\* no list call has been answered, however many have failed, the list call
\* that is answered while it is set has its items discarded, and the call
\* that follows a failed one is answered from the same cursor.
C22_FailedListChangesNothing ==
    /\ [](firstRun <=> res = NoRes)
    /\ [][/\ (ListFails =>
                /\ nextPageToken' = nextPageToken /\ firstRun' = firstRun
                /\ participants' = participants /\ file' = file
                /\ timedLog' = timedLog /\ res' = res /\ posted' = posted
                /\ log' = Append(log, Entry("error", 0, FALSE)))
          /\ (poll = "timer" /\ poll' = "list" => nextPageToken' = nextPageToken)
          /\ (ListAnswered /\ firstRun =>
                /\ log' = log /\ participants' = participants
                /\ firstRun' = FALSE /\ poll' = "timer")
          /\ (ListAnswered /\ Len(log) > 0 /\ log[Len(log)] = Entry("error", 0, FALSE) =>
                res'.first = PageFrom(nextPageToken) + 1)]_vars

\* the first two list calls failed and the third was answered with two
\* items: nothing was sent or stored, and the cursor is past them
C22_Witness ==
    /\ polls = 3 /\ poll = "timer" /\ err = NoErr /\ ~firstRun
    /\ log = <<Entry("error", 0, FALSE), Entry("error", 0, FALSE)>>
    /\ res.first = 1 /\ res.last = 2 /\ nextPageToken = 2
    /\ participants = StartupFile /\ file = StartupFile

\* how many times effect kind went through for the item at stream position i
Times(kind, i) ==
    Cardinality({ q \in Positions : log[q].kind = kind /\ log[q].idx = i /\ log[q].ok })

\* C23: with a provider that answers the same cursor with the same items and
\* repeats no item once the cursor is past it, every chat item goes through
\* the pipeline at most once: it is relayed once at most and gets at most one
\* warning and one command reply, whatever send or relay failed in between.
C23_EachItemAtMostOnce ==
    \A i \in 1..Len(script) :
        /\ Times("relay", i) <= 1
        /\ Times("warn", i) <= 1
        /\ Times("reply", i) <= 1

\* C24: the in-memory participant set only grows; it changes only in the
\* welcome step of the poller, by the one display name of the current item,
\* and never in a step of a timed announcement; the file is written only at
\* an insertion, and a write that succeeds leaves the file equal to the whole
\* in-memory set, the names whose own write had failed included; so the file
\* never holds a name the set lacks, in a process that got as far as loading
\* the store.
C24_StoreGrowsAndFileFollows ==
    /\ [](webhook.section => file \subseteq participants)
    /\ [][/\ participants \subseteq participants'
          /\ (participants' # participants =>
                /\ poll = "await" /\ step = "relay"
                /\ poll' = "await" /\ step' = "welcome" /\ cur' = cur
                /\ script[cur].name \notin participants
                /\ participants' = participants \cup {script[cur].name}
                /\ timedLog' = timedLog)
          /\ (file' # file => participants' # participants /\ file' = participants')
          /\ (timedLog' # timedLog => participants' = participants /\ file' = file)]_vars

\* the second new name of a batch has just been inserted and written: the
\* file holds both new names and equals the set, and the welcome is pending
C24_Witness ==
    /\ poll = "await" /\ step = "welcome" /\ cur = 2
    /\ Cardinality(participants \ StartupFile) = 2
    /\ file = participants
    /\ timedLog # EmptyBag

====
